---- MODULE Spec2Model ----
(***************************************************************************)
(* Crossword CSP solver (generate.py, class CrosswordCreator): node        *)
(* consistency, AC-3 and backtracking search over the domains of the       *)
(* crossword's variables (slots).                                          *)
(*                                                                         *)
(* Python's None is modelled as the empty tuple for an overlap entry and   *)
(* as the empty set for an optional value (a set holding at most one       *)
(* element).  Offsets are 0-based as in the source; a word is a tuple of   *)
(* letters, so the source's word[k] is word[k + 1] here.                   *)
(***************************************************************************)
EXTENDS Integers, Sequences, FiniteSets, TLC

\* Bounds of the model.
MaxVocab == 5   \* most words in the vocabulary
MaxSlots == 3   \* most variables in the crossword structure
MaxArcs == 1    \* longest explicit arc list handed to ac3

VARIABLES
    variables,  \* crossword.variables: the slots of the structure
    overlaps,   \* crossword.overlaps: the overlap table
    words,      \* crossword.words: the vocabulary
    varOrder,   \* iteration order of the dict self.domains
    domains,    \* self.domains
    pc,         \* position of the running call
    caller,     \* who runs ac3: "solve" or the client of the class
    queue,      \* ac3's local worklist
    arcsArg,    \* the arcs argument of the running/last ac3 call ({} = None)
    ac3ret,     \* value returned by the last ac3 call ({} = not returned)
    rev,        \* record of the last revise call ({} = none yet)
    stack,      \* backtrack's activation records, innermost last
    result,     \* solve's return value ({} = None, {a} = assignment a)
    err,        \* exception that ended the call ("" = none)
    log,        \* the steps solve has run, in order
    ac3start,   \* self.domains when the running/last ac3 call began
    prev,       \* value returned by the ac3 call before the running one
    call        \* record of the client's last call of a read-only method

vars == <<variables, overlaps, words, varOrder, domains, pc, caller, queue, arcsArg,
          ac3ret, rev, stack, result, err, log, ac3start, prev, call>>

----------------------------------------------------------------------------
\* The crossword structure (crossword.py: Variable, Crossword).

ACROSS == "across"
DOWN == "down"
None == << >>

Variable(i, j, direction, length) ==
    [i |-> i, j |-> j, direction |-> direction, length |-> length]

\* Variable.cells: the cells a slot covers, in word order.
Cells(v) ==
    [k \in 1..v.length |->
        << v.i + (IF v.direction = DOWN THEN k - 1 ELSE 0),
           v.j + (IF v.direction = ACROSS THEN k - 1 ELSE 0) >>]

CellSet(v) == {Cells(v)[k] : k \in 1..v.length}

CellIndex(v, cell) == (CHOOSE k \in 1..v.length : Cells(v)[k] = cell) - 1

\* The entry crossword.overlaps[v1, v2] for v1 # v2: None, or the pair of
\* offsets of the shared cell in v1's and in v2's word.
Overlap(v1, v2) ==
    LET common == CellSet(v1) \cap CellSet(v2)
    IN  IF common = {} THEN None
        ELSE LET cell == CHOOSE c \in common : TRUE
             IN  << CellIndex(v1, cell), CellIndex(v2, cell) >>

\* crossword.neighbors(var)
Neighbors(var) == {v \in variables : v # var /\ overlaps[v, var] # None}

\* Grid structures: one slot; a down slot crossed at its second cell; an
\* across slot crossed by one down slot at its first cell and by another,
\* at that one's second cell, at its last; the same with a fourth slot that
\* crosses nothing.
Structures ==
    { { Variable(0, 0, ACROSS, 2) },
      { Variable(0, 0, DOWN, 2), Variable(1, 0, ACROSS, 3) },
      { Variable(1, 0, ACROSS, 3), Variable(1, 0, DOWN, 2),
        Variable(0, 2, DOWN, 2) },
      { Variable(1, 0, ACROSS, 3), Variable(1, 0, DOWN, 2),
        Variable(0, 2, DOWN, 2), Variable(4, 0, ACROSS, 2) } }

Puzzles == {p \in Structures : Cardinality(p) <= MaxSlots}

WordPool ==
    { <<"a", "b">>, <<"b", "a">>, <<"b", "b">>,
      <<"a", "b", "a">>, <<"a", "b", "b">>, <<"b", "a", "b">>,
      <<"b", "b", "a">> }
Vocabularies == {ws \in SUBSET WordPool : Cardinality(ws) <= MaxVocab}

\* Every order in which a set can be iterated.
Perms(S) ==
    {s \in [1..Cardinality(S) -> S] :
        \A a, b \in 1..Cardinality(S) : a # b => s[a] # s[b]}

RECURSIVE Concat(_)
Concat(ss) == IF ss = << >> THEN << >> ELSE Head(ss) \o Concat(Tail(ss))

----------------------------------------------------------------------------
\* CrosswordCreator.__init__
Init ==
    /\ variables \in Puzzles
    /\ overlaps = [p \in {q \in variables \X variables : q[1] # q[2]} |->
                      Overlap(p[1], p[2])]
    /\ words \in Vocabularies
    /\ varOrder \in Perms(variables)
    /\ domains = [v \in variables |-> words]
    /\ pc = "constructed"
    /\ caller = "client"
    /\ queue = << >>
    /\ arcsArg = {}
    /\ ac3ret = {}
    /\ rev = {}
    /\ stack = << >>
    /\ result = {}
    /\ err = ""
    /\ log = << >>
    /\ ac3start = domains
    /\ prev = {}
    /\ call = {}

----------------------------------------------------------------------------
\* Mutant of NodeConsistent: only the words that are too long are dropped.
NodeConsistentLonger(doms) ==
    [v \in DOMAIN doms |-> doms[v] \ {word \in doms[v] : Len(word) > v.length}]

\* enforce_node_consistency: drop the words of the wrong length.
NodeConsistent(doms) ==
    [v \in DOMAIN doms |-> doms[v] \ {word \in doms[v] : Len(word) # v.length}]

\* Mutant of WordsMatch: x_word is kept only if every word of y agrees.
WordsMatchAll(x_word, y_words, x_overlap, y_overlap) ==
    \A y_word \in y_words : x_word[x_overlap + 1] = y_word[y_overlap + 1]

\* revise, inner loop: some word of y's domain agrees with x_word.
WordsMatch(x_word, y_words, x_overlap, y_overlap) ==
    \E y_word \in y_words : x_word[x_overlap + 1] = y_word[y_overlap + 1]

\* Mutant of Revise: the two offsets of the overlap are taken the wrong way
\* round.
ReviseSwapped(doms, x, y) ==
    LET x_overlap == overlaps[x, y][2]
        y_overlap == overlaps[x, y][1]
        removed == {x_word \in doms[x] :
                       ~WordsMatch(x_word, doms[y], x_overlap, y_overlap)}
    IN  [doms EXCEPT ![x] = doms[x] \ removed]

\* revise(x, y) for a pair with an overlap: the domains it leaves.
Revise(doms, x, y) ==
    LET x_overlap == overlaps[x, y][1]
        y_overlap == overlaps[x, y][2]
        removed == {x_word \in doms[x] :
                       ~WordsMatch(x_word, doms[y], x_overlap, y_overlap)}
    IN  [doms EXCEPT ![x] = doms[x] \ removed]

\* Mutant of Revised: revise reports a change whatever it did.
RevisedAlways(doms, x, y) == TRUE

\* revise's return value.
Revised(doms, x, y) == Revise(doms, x, y)[x] # doms[x]

\* For each variable, an order in which its set of neighbors is iterated.
NeighborOrders ==
    {o \in [variables -> UNION {Perms(Neighbors(v)) : v \in variables}] :
        \A v \in variables : o[v] \in Perms(Neighbors(v))}

\* ac3, arcs empty or None: the worklists the two nested loops can build.
InitialQueues ==
    {Concat([k \in 1..Len(varOrder) |->
                SelectSeq([n \in 1..Len(o[varOrder[k]]) |->
                              << varOrder[k], o[varOrder[k]][n] >>],
                          LAMBDA arc : overlaps[arc[1], arc[2]] # None)]) :
        o \in NeighborOrders}

\* Mutant of PushedArcs: nothing is put back on the worklist.
PushedNothing(x, y) == {<< >>}

\* Mutant of PushedArcs: the arcs are pushed the wrong way round, (x, z).
PushedReversed(x, y) ==
    {[n \in 1..Len(o) |-> << x, o[n] >>] : o \in Perms(Neighbors(x) \ {y})}

\* Mutant of PushedArcs: an arc (z, x) is pushed for every other slot z,
\* neighbor of x or not.
PushedFromAll(x, y) ==
    {[n \in 1..Len(o) |-> << o[n], x >>] : o \in Perms(variables \ {x, y})}

\* ac3: the arcs appended after revise(x, y) changed x's domain.
PushedArcs(x, y) ==
    {[n \in 1..Len(o) |-> << o[n], x >>] : o \in Perms(Neighbors(x) \ {y})}

\* ac3 without arcs run to its end from domains doms and worklist q, the
\* arcs taken from the front as line 171 does: the value returned and the
\* domains left.
RECURSIVE Ac3Fifo(_, _)
Ac3Fifo(doms, q) ==
    IF q = << >>
    THEN [returned |-> TRUE, domains |-> doms]
    ELSE LET x == Head(q)[1]
             y == Head(q)[2]
             after == Revise(doms, x, y)
         IN  IF ~Revised(doms, x, y)
             THEN Ac3Fifo(after, Tail(q))
             ELSE IF after[x] = {}
             THEN [returned |-> FALSE, domains |-> after]
             ELSE Ac3Fifo(after, Tail(q) \o (CHOOSE pushed \in PushedArcs(x, y) : TRUE))

\* Explicit arc lists a client can hand to ac3.
Arcs == {<<x, y>> \in variables \X variables : x # y /\ overlaps[x, y] # None}
ArcLists == UNION {[1..n -> Arcs] : n \in 0..MaxArcs}

\* assignment_complete, as backtrack tests it: len(assignment) == len(domains).
Complete(assignment) == Cardinality(DOMAIN assignment) = Cardinality(variables)

\* Mutant of Consistent: the test for a reused word is left out.
ConsistentNoDistinct(assignment) ==
    LET assigned == DOMAIN assignment
    IN  /\ \A variable \in assigned :
              variable.length = Len(assignment[variable])
        /\ \A variable \in assigned :
              \A neighbor \in Neighbors(variable) :
                 neighbor \in assigned =>
                    assignment[variable][overlaps[variable, neighbor][1] + 1]
                       = assignment[neighbor][overlaps[variable, neighbor][2] + 1]

\* Mutant of Consistent: a neighbor that is not assigned fails the test.
ConsistentAllNeighbors(assignment) ==
    LET assigned == DOMAIN assignment
        values == {assignment[v] : v \in assigned}
    IN  /\ Cardinality(assigned) = Cardinality(values)
        /\ \A variable \in assigned :
              variable.length = Len(assignment[variable])
        /\ \A variable \in assigned :
              \A neighbor \in Neighbors(variable) :
                 /\ neighbor \in assigned
                 /\ assignment[variable][overlaps[variable, neighbor][1] + 1]
                       = assignment[neighbor][overlaps[variable, neighbor][2] + 1]

\* consistent(assignment)
Consistent(assignment) ==
    LET assigned == DOMAIN assignment
        values == {assignment[v] : v \in assigned}
    IN  /\ Cardinality(assigned) = Cardinality(values)
        /\ \A variable \in assigned :
              variable.length = Len(assignment[variable])
        /\ \A variable \in assigned :
              \A neighbor \in Neighbors(variable) :
                 neighbor \in assigned =>
                    assignment[variable][overlaps[variable, neighbor][1] + 1]
                       = assignment[neighbor][overlaps[variable, neighbor][2] + 1]

\* Mutant of Eliminated: the assigned neighbors are counted too.
EliminatedAll(var, word, assignment) ==
    LET pairs == {<<neighbor, neighbor_word>> \in Neighbors(var) \X words :
                     /\ neighbor_word \in domains[neighbor]
                     /\ word[overlaps[var, neighbor][1] + 1]
                           # neighbor_word[overlaps[var, neighbor][2] + 1]}
    IN  Cardinality(pairs)

\* order_domain_values: the number of neighbor words `word` rules out.
Eliminated(var, word, assignment) ==
    LET open == Neighbors(var) \ DOMAIN assignment
        pairs == {<<neighbor, neighbor_word>> \in open \X words :
                     /\ neighbor_word \in domains[neighbor]
                     /\ word[overlaps[var, neighbor][1] + 1]
                           # neighbor_word[overlaps[var, neighbor][2] + 1]}
    IN  Cardinality(pairs)

\* order_domain_values: `order` is the order in which the loop of line 227
\* meets the words of self.domains[var]; sorted() is stable, so words with
\* equal counts keep that order.
OrderDomainValues(order, var, assignment) ==
    LET n == Len(order)
        key(k) == Eliminated(var, order[k], assignment)
        rank(k) == 1 + Cardinality({m \in 1..n :
                          key(m) < key(k) \/ (key(m) = key(k) /\ m < k)})
    IN  [i \in 1..n |-> order[CHOOSE k \in 1..n : rank(k) = i]]

\* Mutant of SelectUnassignedVariable: the first variable is returned, be it
\* assigned or not.
SelectFirstVariable(assignment) == varOrder[1]

\* select_unassigned_variable: stable sort of the unassigned variables by
\* domain size, first element.
SelectUnassignedVariable(assignment) ==
    LET open == SelectSeq(varOrder, LAMBDA v : v \notin DOMAIN assignment)
        size(k) == Cardinality(domains[open[k]])
        first == CHOOSE k \in 1..Len(open) :
                    \A m \in 1..Len(open) :
                       size(k) < size(m) \/ (size(k) = size(m) /\ k <= m)
    IN  open[first]

\* assignment_copy = assignment.copy(); assignment_copy[variable] = value
Extend(assignment, variable, value) ==
    [v \in DOMAIN assignment \cup {variable} |->
        IF v = variable THEN value ELSE assignment[v]]

\* Mutant of Original: the trial writes into the caller's own dict, as it
\* would with `assignment_copy = assignment`.
Aliased(assignment, variable, value) == Extend(assignment, variable, value)

\* The dict the caller passed, after lines 279-280 ran on its copy.
Original(assignment, variable, value) == assignment

\* A call backtrack(assignment) made with activation records `frames` live:
\* a complete assignment is returned through every caller, otherwise a
\* variable is selected and the loop over its domain begins.
Enter(frames, assignment) ==
    IF Complete(assignment)
    THEN [stack |-> << >>, result |-> {assignment}, pc |-> "done"]
    ELSE LET variable == SelectUnassignedVariable(assignment)
         IN  [stack |-> Append(frames,
                            [assignment |-> assignment, variable |-> variable,
                             untried |-> domains[variable], tried |-> << >>]),
              result |-> {}, pc |-> "backtrack"]

----------------------------------------------------------------------------
\* solve(), lines 102-103: enforce_node_consistency, then ac3() builds its
\* worklist.
Solve ==
    /\ pc = "constructed"
    /\ domains' = NodeConsistent(domains)
    /\ queue' \in InitialQueues
    /\ pc' = "ac3"
    /\ caller' = "solve"
    /\ arcsArg' = {}
    /\ log' = <<"enforce_node_consistency", "ac3">>
    /\ ac3start' = domains'
    /\ UNCHANGED <<variables, overlaps, words, varOrder, ac3ret, rev, stack, result,
                   err, prev, call>>

\* The client calls enforce_node_consistency() itself.
EnforceNodeConsistency ==
    /\ pc = "constructed"
    /\ domains' = NodeConsistent(domains)
    /\ pc' = "idle"
    /\ UNCHANGED <<variables, overlaps, words, varOrder, caller, queue, arcsArg, ac3ret,
                   rev, stack, result, err, log,
                   ac3start, prev, call>>

\* The client calls revise(x, y).  Unpacking overlaps[x, y] (line 132)
\* raises TypeError when the entry is None.
ReviseCall(x, y) ==
    /\ pc = "idle"
    /\ x # y
    /\ IF overlaps[x, y] = None
       THEN /\ err' = "TypeError"
            /\ pc' = "raised"
            /\ rev' = {[x |-> x, y |-> y, before |-> domains,
                        returned |-> {}]}
            /\ UNCHANGED domains
       ELSE /\ domains' = Revise(domains, x, y)
            /\ rev' = {[x |-> x, y |-> y, before |-> domains,
                        returned |-> {Revised(domains, x, y)}]}
            /\ pc' = "done"
            /\ UNCHANGED err
    /\ UNCHANGED <<variables, overlaps, words, varOrder, caller, queue, arcsArg, ac3ret,
                   stack, result, log,
                   ac3start, prev, call>>

\* The client calls ac3(arcs).  `queue` is bound only when arcs is None or
\* empty (lines 163-168); otherwise line 170 raises UnboundLocalError.
Ac3Call(arcs) ==
    /\ pc = "idle"
    /\ arcsArg' = arcs
    /\ ac3ret' = {}
    /\ caller' = "client"
    /\ IF arcs = {} \/ arcs = {<< >>}
       THEN /\ queue' \in InitialQueues
            /\ pc' = "ac3"
            /\ UNCHANGED err
       ELSE /\ err' = "UnboundLocalError"
            /\ pc' = "raised"
            /\ UNCHANGED queue
    /\ ac3start' = domains
    /\ UNCHANGED <<variables, overlaps, words, varOrder, domains, rev, stack, result,
                   log, prev, call>>

\* ac3, one turn of the while loop (lines 170-178).
Ac3Step ==
    /\ pc = "ac3"
    /\ queue # << >>
    /\ LET x == Head(queue)[1]
           y == Head(queue)[2]
       IN  /\ domains' = Revise(domains, x, y)
           /\ rev' = {[x |-> x, y |-> y, before |-> domains,
                       returned |-> {Revised(domains, x, y)}]}
           /\ IF ~Revised(domains, x, y)
              THEN /\ queue' = Tail(queue)
                   /\ UNCHANGED <<pc, ac3ret>>
              ELSE IF domains'[x] = {}
              THEN /\ ac3ret' = {FALSE}
                   /\ pc' = "ac3_returned"
                   /\ queue' = Tail(queue)
              ELSE /\ \E pushed \in PushedArcs(x, y) :
                         queue' = Tail(queue) \o pushed
                   /\ UNCHANGED <<pc, ac3ret>>
    /\ UNCHANGED <<variables, overlaps, words, varOrder, caller, arcsArg, stack, result,
                   err, log,
                   ac3start, prev, call>>

\* ac3, the loop ends with the worklist empty: return True (line 180).
Ac3ReturnTrue ==
    /\ pc = "ac3"
    /\ queue = << >>
    /\ ac3ret' = {TRUE}
    /\ pc' = "ac3_returned"
    /\ UNCHANGED <<variables, overlaps, words, varOrder, domains, caller, queue, arcsArg,
                   rev, stack, result, err, log,
                   ac3start, prev, call>>

\* ac3 returned to the client.
Ac3Done ==
    /\ pc = "ac3_returned"
    /\ caller = "client"
    /\ pc' = "done"
    /\ UNCHANGED <<variables, overlaps, words, varOrder, domains, caller, queue, arcsArg,
                   ac3ret, rev, stack, result, err, log,
                   ac3start, prev, call>>

\* solve(), line 105: ac3's value is dropped and backtrack(dict()) is called.
SolveBacktrack ==
    /\ pc = "ac3_returned"
    /\ caller = "solve"
    /\ LET next == Enter(<< >>, << >>)
       IN  /\ stack' = next.stack
           /\ result' = next.result
           /\ pc' = next.pc
    /\ log' = Append(log, "backtrack")
    /\ UNCHANGED <<variables, overlaps, words, varOrder, domains, caller, queue, arcsArg,
                   ac3ret, rev, err,
                   ac3start, prev, call>>

\* backtrack, one turn of the loop over self.domains[variable] (lines
\* 278-286): a set is iterated in no particular order.
BacktrackTry ==
    /\ pc = "backtrack"
    /\ LET top == stack[Len(stack)]
       IN  \E value \in top.untried :
              LET frames == [stack EXCEPT ![Len(stack)] =
                                [top EXCEPT !.untried = top.untried \ {value},
                                            !.tried = Append(top.tried, value),
                                            !.assignment =
                                               Original(top.assignment,
                                                        top.variable, value)]]
                  assignment_copy == Extend(top.assignment, top.variable, value)
              IN  IF Consistent(assignment_copy)
                  THEN LET next == Enter(frames, assignment_copy)
                       IN  /\ stack' = next.stack
                           /\ result' = next.result
                           /\ pc' = next.pc
                  ELSE /\ stack' = frames
                       /\ UNCHANGED <<result, pc>>
    /\ UNCHANGED <<variables, overlaps, words, varOrder, domains, caller, queue, arcsArg,
                   ac3ret, rev, err, log,
                   ac3start, prev, call>>

\* backtrack, the loop is exhausted: return None (line 288) to the caller,
\* which goes on with its own loop, or to solve.
BacktrackFail ==
    /\ pc = "backtrack"
    /\ stack[Len(stack)].untried = {}
    /\ stack' = SubSeq(stack, 1, Len(stack) - 1)
    /\ IF Len(stack) = 1
       THEN /\ result' = {}
            /\ pc' = "done"
       ELSE UNCHANGED <<result, pc>>
    /\ UNCHANGED <<variables, overlaps, words, varOrder, domains, caller, queue, arcsArg,
                   ac3ret, rev, err, log,
                   ac3start, prev, call>>

Next ==
    \/ Solve
    \/ EnforceNodeConsistency
    \/ \E x, y \in variables : ReviseCall(x, y)
    \/ \E arcs \in {{}} \cup {{a} : a \in ArcLists} : Ac3Call(arcs)
    \/ Ac3Step
    \/ Ac3ReturnTrue
    \/ Ac3Done
    \/ SolveBacktrack
    \/ BacktrackTry
    \/ BacktrackFail

Spec == Init /\ [][Next]_vars

\* solve() alone.  It is sequential code: ac3's loop and backtrack's loops
\* take their next turn until they return.
NextSolve ==
    \/ Solve
    \/ Ac3Step
    \/ Ac3ReturnTrue
    \/ SolveBacktrack
    \/ BacktrackTry
    \/ BacktrackFail

SpecSolveFair ==
    /\ Init
    /\ [][NextSolve]_vars
    /\ WF_vars(Ac3Step)
    /\ WF_vars(Ac3ReturnTrue)
    /\ WF_vars(SolveBacktrack)
    /\ WF_vars(BacktrackTry)
    /\ WF_vars(BacktrackFail)

----------------------------------------------------------------------------
\* Propagation alone: the client enforces node consistency and calls ac3()
\* without arcs, then once more on the domains the first call left.
Ac3Again ==
    /\ pc = "done"
    /\ ac3ret # {}
    /\ prev = {}
    /\ prev' = ac3ret
    /\ ac3ret' = {}
    /\ rev' = {}
    /\ queue' \in InitialQueues
    /\ ac3start' = domains
    /\ pc' = "ac3"
    /\ UNCHANGED <<variables, overlaps, words, varOrder, domains, caller, arcsArg, stack,
                   result, err, log, call>>

\* One turn of ac3's loop with the arc taken at any place k of the worklist
\* instead of the front.
Ac3StepAny(k) ==
    /\ pc = "ac3"
    /\ k \in 1..Len(queue)
    /\ LET x == queue[k][1]
           y == queue[k][2]
           rest == SubSeq(queue, 1, k - 1) \o SubSeq(queue, k + 1, Len(queue))
       IN  /\ domains' = Revise(domains, x, y)
           /\ rev' = {[x |-> x, y |-> y, before |-> domains,
                       returned |-> {Revised(domains, x, y)},
                       strayed |-> k > 1 \/ \E r \in rev : r.strayed]}
           /\ IF ~Revised(domains, x, y)
              THEN /\ queue' = rest
                   /\ UNCHANGED <<pc, ac3ret>>
              ELSE IF domains'[x] = {}
              THEN /\ ac3ret' = {FALSE}
                   /\ pc' = "ac3_returned"
                   /\ queue' = rest
              ELSE /\ \E pushed \in PushedArcs(x, y) :
                         queue' = rest \o pushed
                   /\ UNCHANGED <<pc, ac3ret>>
    /\ UNCHANGED <<variables, overlaps, words, varOrder, caller, arcsArg, stack, result,
                   err, log, ac3start, prev, call>>

NextAnyOrder ==
    \/ EnforceNodeConsistency
    \/ Ac3Call({})
    \/ \E k \in 1..Len(queue) : Ac3StepAny(k)
    \/ Ac3ReturnTrue
    \/ Ac3Done

SpecAnyOrder == Init /\ [][NextAnyOrder]_vars

NextAc3 ==
    \/ EnforceNodeConsistency
    \/ Ac3Call({})
    \/ Ac3Step
    \/ Ac3ReturnTrue
    \/ Ac3Done
    \/ Ac3Again

SpecAc3 == Init /\ [][NextAc3]_vars

\* ac3 is sequential code: once entered, its loop takes its next turn and,
\* the worklist empty, returns.
SpecAc3Fair == SpecAc3 /\ WF_vars(Ac3Step) /\ WF_vars(Ac3ReturnTrue)

----------------------------------------------------------------------------
\* The read-only methods called on their own.  Their results do not depend
\* on the iteration order of self.domains, so one order stands for all.
InitQuery == Init /\ varOrder = CHOOSE s \in Perms(variables) : TRUE

\* The assignments a caller can pass: any words on any subset of the slots.
PartialAssignments == UNION {[S -> words] : S \in SUBSET variables}

\* The client calls consistent(assignment) on the fresh object, the domains
\* still holding the whole vocabulary.
ConsistentCall(assignment) ==
    /\ pc = "constructed"
    /\ call' = {[op |-> "consistent", assignment |-> assignment,
                 returned |-> Consistent(assignment)]}
    /\ pc' = "done"
    /\ UNCHANGED <<variables, overlaps, words, varOrder, domains, caller, queue, arcsArg,
                   ac3ret, rev, stack, result, err, log, ac3start, prev>>

\* The assignments the search can hold when it orders the values of var:
\* words of the slots' domains on any subset of the other slots.
SearchAssignments(var) ==
    UNION {{a \in [S -> words] : \A v \in S : a[v] \in domains[v]} :
              S \in SUBSET (variables \ {var})}

\* The client calls order_domain_values(var, assignment) on node-consistent
\* domains.
OrderDomainValuesCall(var, assignment) ==
    /\ pc = "idle"
    /\ \E order \in Perms(domains[var]) :
          call' = {[op |-> "order_domain_values", var |-> var,
                    assignment |-> assignment, before |-> domains,
                    returned |-> OrderDomainValues(order, var, assignment)]}
    /\ pc' = "done"
    /\ UNCHANGED <<variables, overlaps, words, varOrder, domains, caller, queue, arcsArg,
                   ac3ret, rev, stack, result, err, log, ac3start, prev>>

NextConsistent == \E assignment \in PartialAssignments : ConsistentCall(assignment)

SpecConsistent == InitQuery /\ [][NextConsistent]_vars

NextOrder ==
    \/ EnforceNodeConsistency
    \/ \E var \in variables :
          \E assignment \in SearchAssignments(var) :
             OrderDomainValuesCall(var, assignment)

SpecOrder == InitQuery /\ [][NextOrder]_vars

----------------------------------------------------------------------------
\* Properties.

\* A complete assignment of vocabulary words that meets every constraint of
\* the puzzle, stated from the puzzle alone.
IsSolution(a) ==
    /\ DOMAIN a = variables
    /\ \A v \in variables : a[v] \in words /\ Len(a[v]) = v.length
    /\ \A v1, v2 \in variables :
          v1 # v2 =>
             /\ a[v1] # a[v2]
             /\ overlaps[v1, v2] # None =>
                   a[v1][overlaps[v1, v2][1] + 1] = a[v2][overlaps[v1, v2][2] + 1]

SolveReturned == pc = "done" /\ caller = "solve"

\* C1: an assignment returned by solve gives every slot a vocabulary word of
\* the slot's length, overlapping slots agree on their shared cell, and no
\* two slots hold the same word.
SolveSound == SolveReturned => \A a \in result : IsSolution(a)

\* C1 witness: solve returned an assignment for a puzzle with crossing slots.
SolveSoundWitness ==
    /\ SolveReturned
    /\ result # {}
    /\ \E v \in variables : Cardinality(Neighbors(v)) = 2

\* C2: when solve returns None, no complete consistent assignment of
\* vocabulary words exists.
SolveComplete ==
    (SolveReturned /\ result = {}) =>
        ~ \E a \in [variables -> words] : IsSolution(a)

\* C2 witness: solve returned None although ac3 had returned True and every
\* domain was nonempty, so the search itself exhausted the candidates.
SolveCompleteWitness ==
    /\ SolveReturned
    /\ result = {}
    /\ ac3ret = {TRUE}
    /\ \A v \in variables : domains[v] # {}

\* C3 (as claimed): ac3 returns True only with every domain nonempty, and
\* returns False whenever some domain is empty when it returns.
Ac3ReportsEmptyDomains ==
    pc = "ac3_returned" =>
        /\ ac3ret = {TRUE} => \A v \in variables : domains[v] # {}
        /\ (\E v \in variables : domains[v] = {}) => ac3ret = {FALSE}

\* C4 (as claimed): solve runs node consistency, AC-3 and the search in that
\* order, and never starts the search once ac3 has returned False.
SolveFailsFast ==
    caller = "solve" =>
        /\ \E n \in 0..3 :
              log = SubSeq(<<"enforce_node_consistency", "ac3", "backtrack">>, 1, n)
        /\ ac3ret = {FALSE} =>
              /\ stack = << >>
              /\ \A k \in 1..Len(log) : log[k] # "backtrack"

\* C5 (as claimed): in every activation of backtrack a word is tried only
\* after every word of the domain that eliminates strictly fewer words from
\* the domains of the unassigned neighbors.
TriesLeastConstrainingFirst ==
    \A k \in 1..Len(stack) :
       LET f == stack[k]
       IN  \A p \in 1..Len(f.tried) :
              \A w \in domains[f.variable] :
                 Eliminated(f.variable, w, f.assignment)
                       < Eliminated(f.variable, f.tried[p], f.assignment)
                    => \E q \in 1..(p - 1) : f.tried[q] = w

\* C6 (as claimed): the selected variable is unassigned, has a domain of
\* minimal size among the unassigned ones and, among those of minimal size,
\* the most neighbors.
SelectsByDegree ==
    \A k \in 1..Len(stack) :
       LET f == stack[k]
           open == variables \ DOMAIN f.assignment
           size(v) == Cardinality(domains[v])
           degree(v) == Cardinality(Neighbors(v))
       IN  /\ f.variable \in open
           /\ \A u \in open :
                 /\ size(f.variable) <= size(u)
                 /\ size(u) = size(f.variable) => degree(u) <= degree(f.variable)

\* Word w of x has a supporting word in y's domain.
Supported(doms, x, y, w) ==
    \E w2 \in doms[y] : w[overlaps[x, y][1] + 1] = w2[overlaps[x, y][2] + 1]

\* C7: when ac3() called without arcs returns True, every word of every
\* domain has a supporting word in the domain of each neighboring slot.
Ac3ArcConsistent ==
    (pc = "ac3_returned" /\ arcsArg = {} /\ ac3ret = {TRUE}) =>
        \A x, y \in variables :
           (x # y /\ overlaps[x, y] # None) =>
              \A w \in domains[x] : Supported(domains, x, y, w)

\* C7 witness: ac3() returned True after pruning a node-consistent domain.
Ac3ArcConsistentWitness ==
    /\ pc = "ac3_returned"
    /\ arcsArg = {}
    /\ ac3ret = {TRUE}
    /\ \E v \in variables :
          /\ domains[v] # {}
          /\ domains[v] # {w \in words : Len(w) = v.length}

\* C8: revise(x, y) on a pair with an overlap keeps in x's domain exactly the
\* words with a supporting word in y's domain, returns True iff a word was
\* removed, and changes no other domain.
ReviseExact ==
    \A r \in rev :
       overlaps[r.x, r.y] # None =>
          LET kept == {w \in r.before[r.x] : Supported(r.before, r.x, r.y, w)}
          IN  /\ domains[r.x] = kept
              /\ \A v \in variables \ {r.x} : domains[v] = r.before[v]
              /\ r.returned = {kept # r.before[r.x]}

\* C8 witness: a revise call removed some but not all words of x's domain.
ReviseExactWitness ==
    \E r \in rev :
       /\ r.returned = {TRUE}
       /\ domains[r.x] # {}
       /\ domains[r.y] = r.before[r.y]

\* C9 (as claimed): revise(x, y) on a pair without overlap returns False
\* without an error and changes no domain.
ReviseNoOverlapNoOp ==
    \A r \in rev :
       overlaps[r.x, r.y] = None =>
          /\ err = ""
          /\ r.returned = {FALSE}
          /\ domains = r.before

\* The worklist of a running ac3 call before its first revision.
Ac3Started == pc = "ac3" /\ rev = {}

\* C10 (as claimed): ac3's first worklist is every ordered pair of distinct
\* overlapping slots exactly once when no arcs are given, and the given
\* arcs in their order otherwise, the call then running on without error.
Ac3InitialWorklist ==
    /\ (Ac3Started /\ arcsArg = {}) => queue \in Perms(Arcs)
    /\ \A arcs \in arcsArg :
          /\ err = ""
          /\ Ac3Started => queue = arcs

\* The domains are as enforce_node_consistency left them: it has returned
\* and no revision has run since.
NodeConsistencyEnforced == pc = "idle" \/ (Ac3Started /\ prev = {})

\* C11: after enforce_node_consistency the domain of every slot is exactly
\* the vocabulary words of the slot's length, and no error is raised, a
\* domain left empty included.
NodeConsistencyExact ==
    NodeConsistencyEnforced =>
       /\ err = ""
       /\ \A v \in variables :
             domains[v] = {word \in words : Len(word) = v.length}

\* enforce_node_consistency returned having emptied one domain by removing
\* every word, and kept words in another.
NodeConsistencyExactWitness ==
    /\ pc = "idle"
    /\ \E v \in variables : domains[v] = {}
    /\ \E v \in variables : domains[v] # {}

\* C12: consistent(assignment) returns True exactly when (a) the assigned
\* words are pairwise distinct, (b) each has the length of its slot and
\* (c) every two assigned slots that cross agree on the shared cell; a
\* neighbor that is not assigned imposes nothing.
ConsistentIff ==
    \A c \in call :
       c.op = "consistent" =>
          LET a == c.assignment
              assigned == DOMAIN a
              distinct == \A v1, v2 \in assigned : v1 # v2 => a[v1] # a[v2]
              lengths == \A v \in assigned : Len(a[v]) = v.length
              agree == \A v1, v2 \in assigned :
                          (v1 # v2 /\ Overlap(v1, v2) # None) =>
                             a[v1][Overlap(v1, v2)[1] + 1]
                                = a[v2][Overlap(v1, v2)[2] + 1]
          IN  c.returned = (distinct /\ lengths /\ agree)

\* consistent returned True for an assignment holding two slots that cross,
\* one of them with a further neighbor that is not assigned.
ConsistentIffWitness ==
    \E c \in call :
       /\ c.op = "consistent"
       /\ c.returned
       /\ \E v1, v2 \in DOMAIN c.assignment :
             /\ v1 # v2
             /\ Overlap(v1, v2) # None
             /\ \E v3 \in variables \ DOMAIN c.assignment : Overlap(v1, v3) # None

\* Every word of every domain of doms has a supporting word in the domain
\* of each neighboring slot.
ArcConsistent(doms) ==
    \A x, y \in variables :
       (x # y /\ overlaps[x, y] # None) =>
          \A w \in doms[x] : Supported(doms, x, y, w)

OrderDomainValuesSorted ==
    \A c \in call :
       c.op = "order_domain_values" =>
          LET r == c.returned
              open == {z \in variables \ DOMAIN c.assignment :
                         z # c.var /\ Overlap(c.var, z) # None}
              count(w) == Cardinality(
                  {p \in open \X words :
                      /\ p[2] \in c.before[p[1]]
                      /\ w[Overlap(c.var, p[1])[1] + 1]
                            # p[2][Overlap(c.var, p[1])[2] + 1]})
          IN  /\ Len(r) = Cardinality(c.before[c.var])
              /\ {r[i] : i \in 1..Len(r)} = c.before[c.var]
              /\ \A i, j \in 1..Len(r) : i < j => count(r[i]) <= count(r[j])
              /\ domains = c.before

\* order_domain_values returned at least two words for a slot with one
\* neighbor assigned and one not, the first word ruling out fewer words than
\* the last.
OrderDomainValuesSortedWitness ==
    \E c \in call :
       /\ c.op = "order_domain_values"
       /\ Len(c.returned) >= 2
       /\ \E z \in DOMAIN c.assignment : Overlap(c.var, z) # None
       /\ \E z \in variables \ DOMAIN c.assignment :
             /\ z # c.var
             /\ Overlap(c.var, z) # None
             /\ Cardinality({w \in domains[z] :
                    c.returned[1][Overlap(c.var, z)[1] + 1]
                       # w[Overlap(c.var, z)[2] + 1]})
                  < Cardinality({w \in domains[z] :
                       c.returned[Len(c.returned)][Overlap(c.var, z)[1] + 1]
                          # w[Overlap(c.var, z)[2] + 1]})

\* C15: whatever the order in which ac3 takes the arcs from its worklist,
\* it returns what the first-in-first-out run from the same domains returns
\* and, when that is True, leaves the same domains.
Ac3OrderIndependent ==
    pc = "ac3_returned" =>
       LET fifo == Ac3Fifo(ac3start, CHOOSE q \in InitialQueues : TRUE)
       IN  /\ ac3ret = {fifo.returned}
           /\ fifo.returned => domains = fifo.domains

\* ac3 returned True having pruned a domain, with an arc taken from
\* elsewhere than the front of the worklist.
Ac3OrderIndependentWitness ==
    /\ pc = "ac3_returned"
    /\ ac3ret = {TRUE}
    /\ domains # ac3start
    /\ \E r \in rev : r.strayed

\* C16: in every turn of ac3's loop no domain grows and arcs are added to
\* the worklist only when the revision removed a word; every ac3 run
\* returns.
Ac3Terminates ==
    /\ [][(pc = "ac3" /\ queue # << >>) =>
            /\ \A v \in variables : domains'[v] \subseteq domains[v]
            /\ queue' # Tail(queue) => domains' # domains]_vars
    /\ (pc = "ac3") ~> (pc = "ac3_returned")

\* A turn of the loop has just removed a word and put arcs back on the
\* worklist.
Ac3TerminatesWitness ==
    /\ pc = "ac3"
    /\ \E r \in rev :
          /\ r.returned = {TRUE}
          /\ domains[r.x] # r.before[r.x]
          /\ \E z \in Neighbors(r.x) \ {r.y} :
                queue # << >> /\ queue[Len(queue)] = <<z, r.x>>

\* C17: no step of the search changes a domain, and no step changes the
\* assignment of a backtrack call that is still running: a trial and the
\* calls below it work on copies.
BacktrackFrame ==
    [][pc = "backtrack" =>
          /\ domains' = domains
          /\ \A k \in 1..Len(stack) :
                k <= Len(stack') => stack'[k].assignment = stack[k].assignment]_vars

\* A nested backtrack call went on with its loop after a consistent trial
\* whose branch failed.
BacktrackFrameWitness ==
    /\ pc = "backtrack"
    /\ LET top == stack[Len(stack)]
       IN  /\ top.assignment # << >>
           /\ top.tried # << >>
           /\ Consistent(Extend(top.assignment, top.variable,
                                top.tried[Len(top.tried)]))

\* C18: the search started by solve with the empty assignment returns,
\* either a complete assignment or, with the first call's values exhausted,
\* None; a nested call gets its caller's assignment with one more slot, so
\* no more calls are nested below the first than there are slots.
BacktrackTerminates ==
    /\ [](pc = "backtrack" =>
            /\ Len(stack) <= Cardinality(variables)
            /\ stack[1].assignment = << >>
            /\ \A k \in 1..(Len(stack) - 1) :
                  /\ stack[k].variable \notin DOMAIN stack[k].assignment
                  /\ DOMAIN stack[k + 1].assignment
                        = DOMAIN stack[k].assignment \cup {stack[k].variable}
                  /\ \A v \in DOMAIN stack[k].assignment :
                        stack[k + 1].assignment[v] = stack[k].assignment[v])
    /\ []((pc = "done" /\ caller = "solve") =>
            \A a \in result : DOMAIN a = variables)
    /\ [][(pc = "backtrack" /\ pc' = "done" /\ result' = {}) =>
            Len(stack) = 1 /\ stack[1].untried = {}]_vars
    /\ (pc = "backtrack") ~> (pc = "done" /\ stack = << >>)

\* The search is nested as deep as there are slots, more than one.
BacktrackTerminatesWitness ==
    /\ pc = "backtrack"
    /\ Len(stack) = Cardinality(variables)
    /\ Len(stack) >= 2

\* C19: in every state of enforce_node_consistency and ac3, ac3's return
\* of False included, each word that a complete consistent assignment of
\* vocabulary words gives a slot is still in the slot's domain.
PropagationKeepsSolutions ==
    \A a \in [variables -> words] :
       IsSolution(a) => \A v \in variables : a[v] \in domains[v]

\* ac3 has removed words from the domains of a puzzle that has a solution.
PropagationKeepsSolutionsWitness ==
    /\ pc = "ac3_returned"
    /\ domains # ac3start
    /\ \E a \in [variables -> words] : IsSolution(a)

\* C20: while ac3() called without arcs runs, every entry of its worklist
\* is a pair of two different slots that cross, and so is every pair it has
\* called revise on; no error is raised.
Ac3WorklistArcs ==
    (pc = "ac3" /\ arcsArg = {}) =>
        /\ err = ""
        /\ \A k \in 1..Len(queue) :
              /\ queue[k][1] \in variables
              /\ queue[k][2] \in variables
              /\ queue[k][1] # queue[k][2]
              /\ Overlap(queue[k][1], queue[k][2]) # None
        /\ \A r \in rev : r.x # r.y /\ Overlap(r.x, r.y) # None

\* In a puzzle with two slots that do not cross, a revision by ac3 has just
\* removed a word and pushed an arc.
Ac3WorklistArcsWitness ==
    /\ pc = "ac3"
    /\ arcsArg = {}
    /\ \E u, v \in variables : u # v /\ Overlap(u, v) = None
    /\ \E r \in rev :
          /\ r.returned = {TRUE}
          /\ queue # << >>
          /\ queue[Len(queue)][2] = r.x
          /\ queue[Len(queue)][1] \in Neighbors(r.x) \ {r.y}

====
